---- MODULE Spec2Model ----
(***************************************************************************)
(* Model of flytekit/clis/sdk_in_container/serialize.py: the two entry     *)
(* points serialize_tasks_only and serialize_all, the process-wide entity  *)
(* registry FlyteEntities.entities they work on, and the file-name width   *)
(* helper _determine_text_chars.                                           *)
(***************************************************************************)
EXTENDS Integers, Sequences, FiniteSets, TLC

\* ------------------------------------------------------------------ bounds
MaxRegistry == 3      \* longest registry the process starts with
MaxRuns == 2          \* entry-point calls made in one process
MaxRegistered == 1    \* entities whose has_registered flag is set
MaxLength == 101      \* largest length handed to determine_text_chars (SpecChars)

\* --------------------------------------------------------------- constants
_PROJECT_PLACEHOLDER == "{{ registration.project }}"
_DOMAIN_PLACEHOLDER == "{{ registration.domain }}"
_VERSION_PLACEHOLDER == "{{ registration.version }}"

\* SerializationMode members, the absent argument (None), and a value that is
\* neither member.
DEFAULT == "DEFAULT"
FAST == "FAST"
None == "None"
Unrecognized == "UNRECOGNIZED"
SerializationMode == {DEFAULT, FAST}
ModeArguments == {None, DEFAULT, FAST, Unrecognized}

\* ---------------------------------------------------------------- entities
TASK == "task"
WORKFLOW == "workflow"
LAUNCH_PLAN == "launch_plan"
UNKNOWN_KIND == "other"

Entity(kind, name, workflow) == [kind |-> kind, name |-> name, workflow |-> workflow]
T == Entity(TASK, "T", "")
W == Entity(WORKFLOW, "W", "")
X == Entity(UNKNOWN_KIND, "X", "")

\* The launch plan LaunchPlan.get_default_launch_plan makes for a workflow:
\* named after the workflow, no explicit parameters.
DefaultLaunchPlan(workflow) == Entity(LAUNCH_PLAN, workflow.name, workflow.name)

Universe == {T, W, DefaultLaunchPlan(W), X}

isinstance(entity, kind) == entity.kind = kind

\* ------------------------------------------------------------- identifiers
Identifier(resource_type, project, domain, name, version) ==
    [resource_type |-> resource_type, project |-> project, domain |-> domain,
     name |-> name, version |-> version]

NoId == [resource_type |-> "", project |-> "", domain |-> "", name |-> "", version |-> ""]

\* _utils.fqdn(m.__name__, k, entity_type): the dotted path module.binding.
fqdn(m, k, entity_type) == m \o "." \o k

\* ------------------------------------------------------------------- state
VARIABLES
    entities,            \* FlyteEntities.entities, the process-wide registry
    registered,          \* the entities whose has_registered flag is set
    bindings,            \* (m, k, o) triples the packages hold, in scan order
    o_id,                \* o._id of every entity object, NoId until assigned
    pc,                  \* position of the running entry point
    mode,                \* serialize_all's mode
    loaded_entities,     \* the batch
    snapshot,            \* FlyteEntities.entities.copy() being iterated
    cursor,              \* position of the scan loop or of the expansion loop
    zero_padded_length,
    i,                   \* enumerate index of the write loop
    written,             \* files written by the running call
    error,               \* the exception that ended the call
    runs,                \* entry-point calls started so far
    start_entities,      \* history: the registry when the call started
    previous,            \* history: the last call that returned
    visited,             \* history: the entities the expansion loop has run on
    assigned,            \* history: how often the call has set each object's _id
    length,              \* SpecChars: argument of determine_text_chars
    chars,               \* SpecChars: its result, -1 before the call
    index,               \* SpecChars: the index rendered with that width, -1 before
    rendered             \* SpecChars: str(index).zfill(chars)

process == <<entities, registered, bindings, o_id>>
call == <<pc, mode, loaded_entities, snapshot, cursor, zero_padded_length, i, written,
          error, runs, start_entities, previous, visited, assigned>>
width == <<length, chars, index, rendered>>
vars == <<process, call, width>>

\* ------------------------------------------------------------ file names
RECURSIVE Pow10(_)
Pow10(k) == IF k = 0 THEN 1 ELSE 10 * Pow10(k - 1)

\* _math.ceil(_math.log(n, 10)) for n >= 1: the least k with 10^k >= n.
RECURSIVE CeilLog10From(_, _)
CeilLog10From(n, k) == IF Pow10(k) >= n THEN k ELSE CeilLog10From(n, k + 1)

\* Mutant: the number of digits of n, floor(log10(n)) + 1, in place of the ceiling.
determine_text_chars_digits(n) ==
    IF n = 0 THEN 0 ELSE CeilLog10From(n + 1, 0)

determine_text_chars(n) ==
    IF n = 0 THEN 0 ELSE CeilLog10From(n, 0)

\* str(n) for n >= 0, as the sequence of its decimal digits.
RECURSIVE str(_)
str(n) == IF n < 10 THEN <<n>> ELSE Append(str(n \div 10), n % 10)

\* s.zfill(w): zeros on the left up to w characters, s itself when it is longer.
RECURSIVE zfill(_, _)
zfill(s, w) == IF Len(s) >= w THEN s ELSE zfill(<<0>> \o s, w)

\* int(s) of a digit sequence: what a reader of the file name gets back.
RECURSIVE int(_)
int(s) == IF Len(s) = 0 THEN 0 ELSE 10 * int(SubSeq(s, 1, Len(s) - 1)) + s[Len(s)]

\* Mutant: the index counted from one.
fname_index_one_based(n, w) == zfill(str(n + 1), w)

fname_index(n, w) == zfill(str(n), w)

\* "{}_{}.pb".format(fname_index, name) and "{}_{}.identifier.pb".format(...)
FileName(idx, name, suffix) == [index |-> idx, name |-> name, suffix |-> suffix]

\* Mutant: the record file named with the identifier file's format string.
fname_as_identifier(idx, name) == FileName(idx, name, ".identifier.pb")

fname(idx, name) == FileName(idx, name, ".pb")
identifier_fname(idx, name) == FileName(idx, name, ".identifier.pb")

\* ------------------------------------------------------ serializable forms
\* What loaded_entities holds: the scanned object itself, or the form an
\* entity of the registry hands out.
Serializable(entity, form) == [ent |-> entity, form |-> form]
get_registerable_entity(entity) == Serializable(entity, "registerable")
get_fast_registerable_entity(entity) == Serializable(entity, "fast")

\* Mutant: the flag is never consulted.
has_registered_never(s) == FALSE

has_registered(s) == s.ent \in registered

\* entity.id of a batch entry: the _id the scan assigned to a scanned object,
\* the placeholder identifier a registerable form is built with otherwise.
id(s) ==
    IF s.form = "object"
    THEN o_id[s.ent]
    ELSE Identifier(s.ent.kind, _PROJECT_PLACEHOLDER, _DOMAIN_PLACEHOLDER, s.ent.name,
                    _VERSION_PLACEHOLDER)

\* LaunchPlan.get_default_launch_plan(ctx, workflow): the cached default launch
\* plan, or a new one, which its constructor appends to the registry.
get_default_launch_plan(workflow) == DefaultLaunchPlan(workflow)

EntitiesAfterDefaultLaunchPlan(registry, workflow) ==
    IF \E p \in 1..Len(registry) : registry[p] = DefaultLaunchPlan(workflow)
    THEN registry
    ELSE Append(registry, DefaultLaunchPlan(workflow))

\* ------------------------------------------------------------ package scan
RegisterableKinds == {TASK, WORKFLOW, LAUNCH_PLAN}

\* iterate_registerable_entities_in_order(pkgs, include_entities=...)
iterate_registerable_entities_in_order(include_entities) ==
    SelectSeq(bindings, LAMBDA b : b.o.kind \in include_entities)

\* Mutant: the scan of serialize_tasks_only without its include_entities filter.
TasksOnlyIncludeAll == RegisterableKinds

TasksOnlyInclude == {TASK}

\* --------------------------------------------------------------- start-up
Range(seq) == {seq[p] : p \in 1..Len(seq)}

SeqsUpTo(S, n) == UNION {[1..k -> S] : k \in 0..n}

\* The registries a process can have built before an entry point runs: every
\* entity is constructed once, and a launch plan after the workflow it is for.
Registries ==
    {r \in SeqsUpTo(Universe, MaxRegistry) :
        /\ \A p, q \in 1..Len(r) : r[p] = r[q] => p = q
        /\ \A q \in 1..Len(r) :
              r[q].kind = LAUNCH_PLAN =>
                  \E p \in 1..(q - 1) : /\ r[p].kind = WORKFLOW
                                        /\ r[p].name = r[q].workflow}

BindingNames == <<"a", "b", "c", "d">>

\* The subsequences of a sequence, as the sets of positions kept.
SubSeqOf(seq, keep) == SelectSeq([p \in 1..Len(seq) |-> IF p \in keep THEN <<seq[p]>> ELSE << >>],
                                  LAMBDA x : x # << >>)

\* The scanned package binds some of the registry's tasks, workflows and launch
\* plans, each under a name of its own.
Bindings(registry) ==
    {LET os == SubSeqOf(registry, keep)
     IN  [p \in 1..Len(os) |-> [m |-> "pkg", k |-> BindingNames[p], o |-> os[p][1]]] :
        keep \in SUBSET {p \in 1..Len(registry) : registry[p].kind \in RegisterableKinds}}

\* The package binds one of them under two names: the scan then yields the same
\* object twice.
AliasedBindings(registry) ==
    {<<[m |-> "pkg", k |-> BindingNames[1], o |-> e],
       [m |-> "pkg", k |-> BindingNames[2], o |-> e]>> :
        e \in {x \in Range(registry) : x.kind \in RegisterableKinds}}

InitWidth ==
    /\ length = 0
    /\ chars = -1
    /\ index = -1
    /\ rendered = << >>

InitCall ==
    /\ pc = "idle"
    /\ mode = None
    /\ loaded_entities = << >>
    /\ snapshot = << >>
    /\ cursor = 1
    /\ zero_padded_length = 0
    /\ i = 0
    /\ written = {}
    /\ error = "none"
    /\ runs = 0
    /\ start_entities = << >>
    /\ previous = [op |-> "none", mode |-> None, entities |-> << >>, written |-> {}]
    /\ visited = << >>
    /\ assigned = [e \in Universe |-> 0]

Init ==
    /\ entities \in Registries
    /\ registered \in {R \in SUBSET Range(entities) : Cardinality(R) <= MaxRegistered}
    /\ bindings \in Bindings(entities) \cup AliasedBindings(entities)
    /\ o_id = [e \in Universe |-> NoId]
    /\ InitCall
    /\ InitWidth

\* ------------------------------------------------------------------ shared
\* Lines 54-57 and 118-121: o._id = Identifier(...); loaded_entities.append(o)
AssignIdentifier(b) ==
    [o_id EXCEPT ![b.o] = Identifier(b.o.kind, _PROJECT_PLACEHOLDER, _DOMAIN_PLACEHOLDER,
                                     fqdn(b.m, b.k, b.o.kind), _VERSION_PLACEHOLDER)]

\* An exception leaves the entry point: nothing catches it.
Raise(failed, exception) ==
    /\ pc' = failed
    /\ error' = exception

\* Mutant: the batch of the previous call is kept.
loaded_entities_kept == loaded_entities

\* loaded_entities = []
loaded_entities_new == << >>

Begin(first) ==
    /\ pc = "idle"
    /\ runs < MaxRuns
    /\ runs' = runs + 1
    /\ pc' = first
    /\ loaded_entities' = loaded_entities_new
    /\ cursor' = 1
    /\ i' = 0
    /\ zero_padded_length' = 0
    /\ written' = {}
    /\ snapshot' = << >>
    /\ start_entities' = entities
    /\ visited' = << >>
    /\ assigned' = [e \in Universe |-> 0]
    /\ UNCHANGED <<process, error, previous, width>>

\* ---------------------------------------------------- serialize_tasks_only
TasksOnlyStart ==
    /\ Begin("tasks_scan")
    /\ mode' = None

TasksOnlyScanned == iterate_registerable_entities_in_order(TasksOnlyInclude)

TasksOnlyScan ==
    /\ pc = "tasks_scan"
    /\ cursor <= Len(TasksOnlyScanned)
    /\ LET b == TasksOnlyScanned[cursor]
       IN  /\ o_id' = AssignIdentifier(b)
           /\ assigned' = [assigned EXCEPT ![b.o] = @ + 1]
           /\ loaded_entities' = Append(loaded_entities, Serializable(b.o, "object"))
    /\ cursor' = cursor + 1
    /\ UNCHANGED <<entities, registered, bindings, pc, mode, snapshot, zero_padded_length,
                   i, written, error, runs, start_entities, previous, visited, width>>

TasksOnlyScanDone ==
    /\ pc = "tasks_scan"
    /\ cursor > Len(TasksOnlyScanned)
    /\ zero_padded_length' = determine_text_chars(Len(loaded_entities))
    /\ i' = 0
    /\ pc' = "tasks_write"
    /\ UNCHANGED <<process, mode, loaded_entities, snapshot, cursor, written, error, runs,
                   start_entities, previous, visited, assigned, width>>

\* entity.serialize() of the entry the write loop is at and the write of its
\* record file: each returns or raises.
TasksOnlyWritePb ==
    /\ pc = "tasks_write"
    /\ i < Len(loaded_entities)
    /\ LET entity == loaded_entities[i + 1]
       IN  \/ /\ written' = written \cup
                     {fname(fname_index(i, zero_padded_length), o_id[entity.ent].name)}
              /\ pc' = "tasks_write_identifier"
              /\ UNCHANGED error
           \/ Raise("tasks_failed", "serialize") /\ UNCHANGED written
           \/ Raise("tasks_failed", "write_pb") /\ UNCHANGED written
    /\ UNCHANGED <<process, mode, loaded_entities, snapshot, cursor, zero_padded_length, i,
                   runs, start_entities, previous, visited, assigned, width>>

TasksOnlyWriteIdentifier ==
    /\ pc = "tasks_write_identifier"
    /\ LET entity == loaded_entities[i + 1]
       IN  \/ /\ written' = written \cup
                     {identifier_fname(fname_index(i, zero_padded_length),
                                       o_id[entity.ent].name)}
              /\ pc' = "tasks_write"
              /\ i' = i + 1
              /\ UNCHANGED error
           \/ Raise("tasks_failed", "write_identifier") /\ UNCHANGED <<written, i>>
    /\ UNCHANGED <<process, mode, loaded_entities, snapshot, cursor, zero_padded_length,
                   runs, start_entities, previous, visited, assigned, width>>

TasksOnlyDone ==
    /\ pc = "tasks_write"
    /\ i >= Len(loaded_entities)
    /\ pc' = "tasks_done"
    /\ UNCHANGED <<process, mode, loaded_entities, snapshot, cursor, zero_padded_length, i,
                   written, error, runs, start_entities, previous, visited, assigned, width>>

\* ------------------------------------------------------------ serialize_all
AllStart ==
    /\ Begin("all_scan")
    /\ mode' \in ModeArguments

AllScanned == iterate_registerable_entities_in_order(RegisterableKinds)

AllScan ==
    /\ pc = "all_scan"
    /\ cursor <= Len(AllScanned)
    /\ LET b == AllScanned[cursor]
       IN  /\ o_id' = AssignIdentifier(b)
           /\ assigned' = [assigned EXCEPT ![b.o] = @ + 1]
           /\ loaded_entities' = Append(loaded_entities, Serializable(b.o, "object"))
    /\ cursor' = cursor + 1
    /\ UNCHANGED <<entities, registered, bindings, pc, mode, snapshot, zero_padded_length,
                   i, written, error, runs, start_entities, previous, visited, width>>

\* mode = mode if mode else SerializationMode.DEFAULT
EffectiveMode(m) == IF m = None THEN DEFAULT ELSE m

AllScanDone ==
    /\ pc = "all_scan"
    /\ cursor > Len(AllScanned)
    /\ mode' = EffectiveMode(mode)
    /\ snapshot' = entities
    /\ cursor' = 1
    /\ pc' = "all_expand"
    /\ UNCHANGED <<process, loaded_entities, zero_padded_length, i, written, error, runs,
                   start_entities, previous, visited, assigned, width>>

\* Mutant: the loop runs over FlyteEntities.entities itself.
entities_live == entities

\* FlyteEntities.entities.copy(), made when the loop starts: what the loop runs over.
entities_copy == snapshot

\* One pass of the loop over FlyteEntities.entities.copy().
AllExpandTask ==
    /\ pc = "all_expand"
    /\ cursor <= Len(entities_copy)
    /\ LET entity == entities_copy[cursor]
       IN  /\ isinstance(entity, TASK)
           /\ \/ /\ mode = DEFAULT
                 /\ loaded_entities' = Append(loaded_entities, get_registerable_entity(entity))
                 /\ cursor' = cursor + 1
                 /\ UNCHANGED <<pc, error>>
              \/ /\ mode = FAST
                 /\ loaded_entities' =
                        Append(loaded_entities, get_fast_registerable_entity(entity))
                 /\ cursor' = cursor + 1
                 /\ UNCHANGED <<pc, error>>
              \/ /\ mode \notin SerializationMode
                 /\ Raise("all_failed", "AssertionError")
                 /\ UNCHANGED <<loaded_entities, cursor>>
    /\ visited' = Append(visited, entities_copy[cursor])
    /\ UNCHANGED <<process, mode, snapshot, zero_padded_length, i, written, runs,
                   start_entities, previous, assigned, width>>

AllExpandWorkflow ==
    /\ pc = "all_expand"
    /\ cursor <= Len(entities_copy)
    /\ LET entity == entities_copy[cursor]
           lp == get_default_launch_plan(entity)
       IN  /\ isinstance(entity, WORKFLOW)
           /\ entities' = EntitiesAfterDefaultLaunchPlan(entities, entity)
           /\ loaded_entities' = loaded_entities \o
                  <<get_registerable_entity(entity), get_registerable_entity(lp)>>
    /\ cursor' = cursor + 1
    /\ visited' = Append(visited, entities_copy[cursor])
    /\ UNCHANGED <<registered, bindings, o_id, pc, mode, snapshot, zero_padded_length, i,
                   written, error, runs, start_entities, previous, assigned, width>>

AllExpandLaunchPlan ==
    /\ pc = "all_expand"
    /\ cursor <= Len(entities_copy)
    /\ LET entity == entities_copy[cursor]
       IN  /\ isinstance(entity, LAUNCH_PLAN)
           /\ loaded_entities' = Append(loaded_entities, get_registerable_entity(entity))
    /\ cursor' = cursor + 1
    /\ visited' = Append(visited, entities_copy[cursor])
    /\ UNCHANGED <<process, pc, mode, snapshot, zero_padded_length, i, written, error, runs,
                   start_entities, previous, assigned, width>>

AllExpandOther ==
    /\ pc = "all_expand"
    /\ cursor <= Len(entities_copy)
    /\ entities_copy[cursor].kind \notin RegisterableKinds
    /\ cursor' = cursor + 1
    /\ visited' = Append(visited, entities_copy[cursor])
    /\ UNCHANGED <<process, pc, mode, loaded_entities, snapshot, zero_padded_length, i,
                   written, error, runs, start_entities, previous, assigned, width>>

AllExpandDone ==
    /\ pc = "all_expand"
    /\ cursor > Len(entities_copy)
    /\ zero_padded_length' = determine_text_chars(Len(loaded_entities))
    /\ i' = 0
    /\ pc' = "all_write"
    /\ UNCHANGED <<process, mode, loaded_entities, snapshot, cursor, written, error, runs,
                   start_entities, previous, visited, assigned, width>>

AllSkip ==
    /\ pc = "all_write"
    /\ i < Len(loaded_entities)
    /\ has_registered(loaded_entities[i + 1])
    /\ i' = i + 1
    /\ UNCHANGED <<process, pc, mode, loaded_entities, snapshot, cursor, zero_padded_length,
                   written, error, runs, start_entities, previous, visited, assigned, width>>

AllWritePb ==
    /\ pc = "all_write"
    /\ i < Len(loaded_entities)
    /\ ~has_registered(loaded_entities[i + 1])
    /\ LET entity == loaded_entities[i + 1]
       IN  \/ /\ written' = written \cup
                     {fname(fname_index(i, zero_padded_length), id(entity).name)}
              /\ pc' = "all_write_identifier"
              /\ UNCHANGED error
           \/ Raise("all_failed", "serialize") /\ UNCHANGED written
           \/ Raise("all_failed", "write_pb") /\ UNCHANGED written
    /\ UNCHANGED <<process, mode, loaded_entities, snapshot, cursor, zero_padded_length, i,
                   runs, start_entities, previous, visited, assigned, width>>

AllWriteIdentifier ==
    /\ pc = "all_write_identifier"
    /\ LET entity == loaded_entities[i + 1]
       IN  \/ /\ written' = written \cup
                     {identifier_fname(fname_index(i, zero_padded_length), id(entity).name)}
              /\ pc' = "all_write"
              /\ i' = i + 1
              /\ UNCHANGED error
           \/ Raise("all_failed", "write_identifier") /\ UNCHANGED <<written, i>>
    /\ UNCHANGED <<process, mode, loaded_entities, snapshot, cursor, zero_padded_length,
                   runs, start_entities, previous, visited, assigned, width>>

AllDone ==
    /\ pc = "all_write"
    /\ i >= Len(loaded_entities)
    /\ pc' = "all_done"
    /\ UNCHANGED <<process, mode, loaded_entities, snapshot, cursor, zero_padded_length, i,
                   written, error, runs, start_entities, previous, visited, assigned, width>>

\* ------------------------------------------------------------------ return
\* The entry point returns to its caller, which may call an entry point again
\* in the same process. A call that raised ends the process.
Return ==
    /\ pc \in {"tasks_done", "all_done"}
    /\ previous' = [op |-> pc, mode |-> mode, entities |-> start_entities,
                    written |-> written]
    /\ pc' = "idle"
    /\ UNCHANGED <<process, mode, loaded_entities, snapshot, cursor, zero_padded_length, i,
                   written, error, runs, start_entities, visited, assigned, width>>

Next ==
    \/ TasksOnlyStart \/ TasksOnlyScan \/ TasksOnlyScanDone
    \/ TasksOnlyWritePb \/ TasksOnlyWriteIdentifier \/ TasksOnlyDone
    \/ AllStart \/ AllScan \/ AllScanDone
    \/ AllExpandTask \/ AllExpandWorkflow \/ AllExpandLaunchPlan \/ AllExpandOther
    \/ AllExpandDone
    \/ AllSkip \/ AllWritePb \/ AllWriteIdentifier \/ AllDone
    \/ Return

Spec == Init /\ [][Next]_vars

\* -------------------------------------------------- _determine_text_chars
\* The helper on its own, with the rendering the write loops do with its
\* result: zero_padded_length = _determine_text_chars(length), then
\* str(i).zfill(zero_padded_length) for an i of enumerate(loaded_entities).
InitChars ==
    /\ entities = << >>
    /\ registered = {}
    /\ bindings = << >>
    /\ o_id = [e \in Universe |-> NoId]
    /\ InitCall
    /\ length \in 0..MaxLength
    /\ chars = -1
    /\ index = -1
    /\ rendered = << >>

DetermineTextChars ==
    /\ chars = -1
    /\ chars' = determine_text_chars(length)
    /\ UNCHANGED <<process, call, length, index, rendered>>

RenderIndex ==
    /\ chars >= 0
    /\ index = -1
    /\ \E n \in 0..(length - 1) :
          /\ index' = n
          /\ rendered' = fname_index(n, chars)
    /\ UNCHANGED <<process, call, length, chars>>

NextChars == DetermineTextChars \/ RenderIndex

SpecChars == InitChars /\ [][NextChars]_vars

\* ================================================================ properties
InAll == pc \in {"all_scan", "all_expand", "all_write", "all_write_identifier",
                 "all_done", "all_failed"}
InTasksOnly == pc \in {"tasks_scan", "tasks_write", "tasks_write_identifier",
                       "tasks_done", "tasks_failed"}
BatchBuilt == pc \in {"all_write", "all_write_identifier", "all_done"}

Positions == 1..Len(loaded_entities)
HasPb(idx) == \E f \in written : int(f.index) = idx /\ f.suffix = ".pb"
HasIdentifier(idx) == \E f \in written : int(f.index) = idx /\ f.suffix = ".identifier.pb"
WrittenIndices == {int(f.index) : f \in written}
Flagged(p) == loaded_entities[p].ent \in registered
CountOf(s) == Cardinality({p \in Positions : loaded_entities[p] = s})
Bound == {b.o : b \in Range(bindings)}

\* C1: serialize_all writes no record file and no identifier file for a batch
\* entry whose has_registered flag is set, and no exception is raised at such an
\* entry: the file writes and the failures of the write loop only happen at
\* entries whose flag is clear.
C1_RegisteredNeverWritten ==
    InAll =>
        /\ \A p \in Positions : Flagged(p) => ~HasPb(p - 1) /\ ~HasIdentifier(p - 1)
        /\ pc = "all_write_identifier" => ~Flagged(i + 1)
        /\ (pc = "all_failed" /\ error # "AssertionError") => ~Flagged(i + 1)

\* A finished call that skipped a flagged entry and wrote a later one.
C1_Witness ==
    /\ pc = "all_done"
    /\ \E p, q \in Positions :
          p < q /\ Flagged(p) /\ ~Flagged(q) /\ HasPb(q - 1) /\ HasIdentifier(q - 1)

\* C2 (as claimed): in the batch serialize_all builds from the registry, a
\* workflow is immediately followed by exactly one entry for its default launch
\* plan when that launch plan was not in the registry before the call, and when
\* it was, no launch plan entry is added after the workflow: the batch holds the
\* registry's own entry for it and no other.
C2_Claim ==
    BatchBuilt =>
        \A p \in Positions :
            LET s == loaded_entities[p]
                lp == Serializable(DefaultLaunchPlan(s.ent), "registerable")
            IN  (s.form = "registerable" /\ s.ent.kind = WORKFLOW) =>
                    IF DefaultLaunchPlan(s.ent) \in Range(start_entities)
                    THEN CountOf(lp) <= 1
                    ELSE /\ p < Len(loaded_entities)
                         /\ loaded_entities[p + 1] = lp
                         /\ CountOf(lp) = 1

\* C3 (as claimed): the entries written are registerable forms of the registry's
\* entities and of default launch plans only, never a scanned object itself;
\* with the registry <<T, W>>, both bound by the package, no flag set and mode
\* DEFAULT, exactly the three pairs 0_T, 1_W, 2_W (the launch plan) are written.
C3_Claim ==
    pc = "all_done" =>
        /\ \A p \in Positions : HasPb(p - 1) => loaded_entities[p].form # "object"
        /\ (start_entities = <<T, W>> /\ Bound = {T, W} /\ registered = {}
              /\ mode = DEFAULT) =>
               written = UNION {{FileName(<<0>>, "T", sfx), FileName(<<1>>, "W", sfx),
                                 FileName(<<2>>, "W", sfx)} :
                                   sfx \in {".pb", ".identifier.pb"}}

\* Every index of 0..n-1, zero-filled to w, has exactly w digits.
Fits(n, w) == \A k \in 0..(n - 1) : Len(zfill(str(k), w)) = w

\* C4 (as claimed): for every length n, w = _determine_text_chars(n) is the least
\* width such that every index of 0..n-1 renders in exactly w digits.
C4_Claim ==
    chars >= 0 =>
        /\ Fits(length, chars)
        /\ \A w \in 0..(chars - 1) : ~Fits(length, w)
        /\ index >= 0 => Len(rendered) = chars

\* C4 (amended): the same for every n other than 1; for n = 1 the width is 0 and
\* the only index, 0, renders as the one digit "0". n = 10, 11, 100, 101 give
\* 1, 2, 2, 3, and the rendered index reads back as the index.
C4_Amended ==
    chars >= 0 =>
        /\ length # 1 =>
              /\ Fits(length, chars)
              /\ \A w \in 0..(chars - 1) : ~Fits(length, w)
              /\ index >= 0 => Len(rendered) = chars
        /\ length = 1 => chars = 0 /\ (index >= 0 => rendered = <<0>>)
        /\ index >= 0 => int(rendered) = index
        /\ length = 10 => chars = 1
        /\ length = 11 => chars = 2
        /\ length = 100 => chars = 2
        /\ length = 101 => chars = 3

C4_Witness ==
    /\ length = 101
    /\ chars = 3
    /\ index = 100
    /\ rendered = <<1, 0, 0>>

TaskBindings == SelectSeq(bindings, LAMBDA b : b.o.kind = TASK)

C7_Claim ==
    (InAll /\ mode = Unrecognized) => written = {} /\ pc # "all_done"

\* C8 (as claimed): no task, workflow or launch plan of the registry has its
\* registerable form written under two indices by one serialize_all call.
C8_Claim ==
    InAll =>
        \A p, q \in Positions :
            (/\ loaded_entities[p].form # "object"
             /\ loaded_entities[q].form # "object"
             /\ loaded_entities[p].ent = loaded_entities[q].ent
             /\ HasPb(p - 1)
             /\ HasPb(q - 1)) => p = q

\* C9 (as claimed): a serialize_all call that returns after writing N record
\* pairs used exactly the indices 0..N-1, and its width is the one for N.
C9_Claim ==
    pc = "all_done" =>
        LET N == Cardinality({f \in written : f.suffix = ".pb"})
        IN  /\ WrittenIndices = 0..(N - 1)
            /\ zero_padded_length = determine_text_chars(N)

\* C9 (amended): the index of a written pair is the entry's position in the
\* whole batch, skipped entries included: a call that returns has written, for
\* every batch position whose entry is not flagged and for no other, exactly one
\* record file and one identifier file, of the same name, and every index is
\* zero-filled to the width for the length of the whole batch.
C9_Amended ==
    pc = "all_done" =>
        /\ WrittenIndices = {p - 1 : p \in {q \in Positions : ~Flagged(q)}}
        /\ \A idx \in WrittenIndices :
              /\ Cardinality({f \in written : int(f.index) = idx}) = 2
              /\ \E f, g \in written :
                    /\ int(f.index) = idx /\ f.suffix = ".pb"
                    /\ int(g.index) = idx /\ g.suffix = ".identifier.pb"
                    /\ f.name = g.name
                    /\ f.index = g.index
        /\ zero_padded_length =
               (IF Len(loaded_entities) = 0 THEN 0 ELSE CeilLog10From(Len(loaded_entities), 0))
        /\ \A f \in written : Len(f.index) = IF zero_padded_length = 0 THEN 1
                                             ELSE zero_padded_length

C9_Witness ==
    /\ pc = "all_done"
    /\ Len(loaded_entities) >= 2
    /\ Flagged(1)
    /\ WrittenIndices # {}
    /\ 0 \notin WrittenIndices

\* C10 (as claimed): when a call has failed, every batch index has both of its
\* files or neither.
C10_Claim ==
    pc \in {"all_failed", "tasks_failed"} =>
        \A p \in Positions : HasPb(p - 1) <=> HasIdentifier(p - 1)

\* C10 (amended): the record file of an index is written before its identifier
\* file and nothing removes it, so at every point of the write loop, failures
\* included: an index below the loop's has both files (neither when its entry was
\* skipped), an index above it has neither, and the loop's own index has no
\* identifier file, and has its record file exactly between the two writes or
\* after the identifier write failed.
C10_Amended ==
    (InAll \/ InTasksOnly) =>
        \A p \in Positions :
            LET idx == p - 1
                skipped == InAll /\ Flagged(p)
            IN  /\ idx < i => IF skipped THEN ~HasPb(idx) /\ ~HasIdentifier(idx)
                                         ELSE HasPb(idx) /\ HasIdentifier(idx)
                /\ idx > i => ~HasPb(idx) /\ ~HasIdentifier(idx)
                /\ idx = i =>
                      /\ ~HasIdentifier(idx)
                      /\ HasPb(idx) <=>
                            \/ pc \in {"all_write_identifier", "tasks_write_identifier"}
                            \/ error = "write_identifier"

C10_Witness ==
    /\ pc \in {"all_failed", "tasks_failed"}
    /\ error = "write_identifier"
    /\ i >= 1
    /\ HasPb(i) /\ ~HasIdentifier(i)
    /\ HasPb(0) /\ HasIdentifier(0)

IsPrefix(a, b) == Len(a) <= Len(b) /\ SubSeq(b, 1, Len(a)) = a

\* C11: the expansion loop of serialize_all runs on the entities the registry held
\* when the loop started, each once and in registry order, and ends after as many
\* passes as that registry was long; the launch plans appended meanwhile are not
\* visited, and the live registry only grows at its end, by launch plans: what it
\* held at the start stays its prefix.
C11_SnapshotIteration ==
    InAll =>
        /\ IsPrefix(start_entities, entities)
        /\ \A p \in (Len(start_entities) + 1)..Len(entities) : entities[p].kind = LAUNCH_PLAN
        /\ pc = "all_scan" => visited = << >> /\ entities = start_entities
        /\ pc = "all_expand" =>
              /\ cursor <= Len(start_entities) + 1
              /\ visited = SubSeq(start_entities, 1, cursor - 1)
        /\ BatchBuilt => visited = start_entities
        /\ pc = "all_failed" =>
              IF error = "AssertionError"
              THEN visited = SubSeq(start_entities, 1, cursor)
              ELSE visited = start_entities

\* The loop is over, it ran on the two or more entities of the starting registry,
\* and the registry has grown meanwhile.
C11_Witness ==
    /\ pc = "all_write"
    /\ Len(start_entities) >= 2
    /\ visited = start_entities
    /\ Len(entities) > Len(start_entities)

\* C12 (as claimed): within one call of serialize_all or serialize_tasks_only no
\* object has its _id set more than once, also when the scan yields it under two
\* names; every scanned object of the batch has had it set exactly once, and an
\* identifier that is set carries the three placeholders.
C12_Claim ==
    (InAll \/ InTasksOnly) =>
        /\ \A e \in Universe : assigned[e] <= 1
        /\ \A p \in Positions :
              loaded_entities[p].form = "object" => assigned[loaded_entities[p].ent] = 1
        /\ \A p \in Positions :
              LET ident == id(loaded_entities[p])
              IN  /\ ident.project = "{{ registration.project }}"
                  /\ ident.domain = "{{ registration.domain }}"
                  /\ ident.version = "{{ registration.version }}"

====
